---------------------------- MODULE Spec2Model ----------------------------
(***************************************************************************)
(* Model of the sales analytics pipeline: parse_transactions,              *)
(* validate_and_filter (both definitions), the analytics functions,        *)
(* the enrichment functions, generate_sales_report and main().             *)
(*                                                                         *)
(* Python values are records [t, s, n]: t is the type tag, s the           *)
(* characters of a str (a sequence of one-character strings), n the        *)
(* number of an int, or of a float counted in hundredths.  float('nan')    *)
(* has its own tag, since every ordered comparison with it is False.       *)
(* A dict is a function whose DOMAIN is its key set.                       *)
(***************************************************************************)
EXTENDS Integers, Sequences, FiniteSets, TLC

VARIABLES
    pc,                    \* position in main(), or in the function-level harness
    raw_lines,             \* result of read_sales_data
    transactions,          \* result of parse_transactions / input of a call
    region_filter,         \* main(): region_filter
    min_amount,            \* main(): min_amount
    max_amount,            \* main(): max_amount
    valid_transactions,    \* accepted list
    invalid_count,         \* rejected count
    summary,               \* filter summary dict
    analysis,              \* outcomes of the analytics calls
    fetch_failed,          \* the catalog request raised RequestException
    api_products,          \* result of fetch_all_products
    product_mapping,       \* result of create_product_mapping
    enriched_transactions, \* result of enrich_sales_data
    saved_file,            \* rows written by save_enriched_data
    report                 \* outcome of generate_sales_report

vars == <<pc, raw_lines, transactions, region_filter, min_amount, max_amount,
          valid_transactions, invalid_count, summary, analysis, fetch_failed,
          api_products, product_mapping, enriched_transactions, saved_file,
          report>>

-----------------------------------------------------------------------------
(* Bounds of the model *)

MaxLines == 2

MaxTxs == 2

-----------------------------------------------------------------------------
(* Python values *)

Str(s) == [t |-> "str", s |-> s, n |-> 0]

Int_(n) == [t |-> "int", s |-> <<>>, n |-> n]

Flt(n) == [t |-> "float", s |-> <<>>, n |-> n]

NaN == [t |-> "nan", s |-> <<>>, n |-> 0]

None == [t |-> "none", s |-> <<>>, n |-> 0]

Bool(b) == [t |-> "bool", s |-> <<>>, n |-> IF b THEN 1 ELSE 0]

IsStr(v) == v.t = "str"

IsNumber(v) == v.t \in {"int", "float", "nan"}

\* bool(v)
Truthy(v) ==
    CASE v.t = "str" -> v.s # <<>>
      [] v.t = "int" -> v.n # 0
      [] v.t = "float" -> v.n # 0
      [] v.t = "nan" -> TRUE
      [] v.t = "bool" -> v.n = 1
      [] OTHER -> FALSE

\* a <= 0 on a number (False for nan); the caller checks IsNumber first
LeZero(v) == v.t # "nan" /\ v.n <= 0

\* a > 0 on a number (False for nan)
GtZero(v) == v.t # "nan" /\ v.n > 0

\* a < b and a > b on floats (False when either is nan)
FltLt(a, b) == a.t # "nan" /\ b.t # "nan" /\ a.n < b.n

FltGt(a, b) == a.t # "nan" /\ b.t # "nan" /\ a.n > b.n

\* int * float
Mul(q, p) == IF q.t = "nan" \/ p.t = "nan" THEN NaN ELSE Flt(q.n * p.n)

\* float + float
Add(a, b) == IF a.t = "nan" \/ b.t = "nan" THEN NaN ELSE Flt(a.n + b.n)

-----------------------------------------------------------------------------
(* str methods, on sequences of characters *)

Digits == <<"0", "1", "2", "3", "4", "5", "6", "7", "8", "9">>

IsDigit(c) == \E i \in 1..Len(Digits) : Digits[i] = c

DigitVal(c) == (CHOOSE i \in 1..Len(Digits) : Digits[i] = c) - 1

\* s.startswith(p) for a one-character p
StartsWith(s, p) == Len(s) >= 1 /\ s[1] = p

RECURSIVE LStrip(_)
LStrip(s) == IF s # <<>> /\ Head(s) = " " THEN LStrip(Tail(s)) ELSE s

RECURSIVE RStrip(_)
RStrip(s) ==
    IF s # <<>> /\ s[Len(s)] = " " THEN RStrip(SubSeq(s, 1, Len(s) - 1)) ELSE s

\* s.strip()
Strip(s) == RStrip(LStrip(s))

\* s.replace(",", "")
RemoveCommas(s) == SelectSeq(s, LAMBDA c : c # ",")

\* "".join(filter(str.isdigit, s))
FilterDigits(s) == SelectSeq(s, IsDigit)

\* the value of a non-empty string of digits
RECURSIVE DigitsValue(_)
DigitsValue(s) ==
    IF s = <<>> THEN 0
    ELSE 10 * DigitsValue(SubSeq(s, 1, Len(s) - 1)) + DigitVal(s[Len(s)])

AllDigits(s) == s # <<>> /\ \A i \in 1..Len(s) : IsDigit(s[i])

\* line.split("|")
RECURSIVE Split(_)
Split(s) ==
    IF \A i \in 1..Len(s) : s[i] # "|" THEN <<s>>
    ELSE LET k == CHOOSE i \in 1..Len(s) :
                      s[i] = "|" /\ \A j \in 1..(i - 1) : s[j] # "|"
         IN  <<SubSeq(s, 1, k - 1)>> \o Split(SubSeq(s, k + 1, Len(s)))

\* "|".join(parts)
RECURSIVE Join(_)
Join(parts) ==
    IF parts = <<>> THEN <<>>
    ELSE IF Len(parts) = 1 THEN parts[1]
    ELSE parts[1] \o <<"|">> \o Join(Tail(parts))

\* int(s): [ok |-> FALSE] is ValueError.  Grammar covered: surrounding
\* blanks, an optional sign, decimal digits.
PyInt(s) ==
    LET u == Strip(s)
        neg == u # <<>> /\ Head(u) = "-"
        body == IF u # <<>> /\ Head(u) \in {"-", "+"} THEN Tail(u) ELSE u
    IN  IF AllDigits(body)
        THEN [ok |-> TRUE,
              v |-> Int_(IF neg THEN 0 - DigitsValue(body) ELSE DigitsValue(body))]
        ELSE [ok |-> FALSE, v |-> None]

\* float(s): [ok |-> FALSE] is ValueError.  Grammar covered: surrounding
\* blanks, "nan", an optional sign, digits, and at most two decimals; the
\* value is counted in hundredths.
PyFloat(s) ==
    LET u == Strip(s)
        neg == u # <<>> /\ Head(u) = "-"
        body == IF u # <<>> /\ Head(u) \in {"-", "+"} THEN Tail(u) ELSE u
        dots == {i \in 1..Len(body) : body[i] = "."}
        dot == CHOOSE i \in dots : TRUE
        whole == IF dots = {} THEN body ELSE SubSeq(body, 1, dot - 1)
        frac == IF dots = {} THEN <<>> ELSE SubSeq(body, dot + 1, Len(body))
        cents == IF Len(frac) = 0 THEN 0
                 ELSE IF Len(frac) = 1 THEN 10 * DigitsValue(frac)
                 ELSE DigitsValue(frac)
        mag == 100 * DigitsValue(whole) + cents
    IN  IF body = <<"n", "a", "n">> THEN [ok |-> TRUE, v |-> NaN]
        ELSE IF /\ Cardinality(dots) <= 1
                /\ Len(frac) <= 2
                /\ Len(whole) + Len(frac) >= 1
                /\ \A i \in 1..Len(whole) : IsDigit(whole[i])
                /\ \A i \in 1..Len(frac) : IsDigit(frac[i])
        THEN [ok |-> TRUE, v |-> Flt(IF neg THEN 0 - mag ELSE mag)]
        ELSE [ok |-> FALSE, v |-> None]

-----------------------------------------------------------------------------
(* utils/file_handler.py: parse_transactions *)

headers ==
    <<"TransactionID", "Date", "ProductID", "ProductName",
      "Quantity", "UnitPrice", "CustomerID", "Region">>

\* one iteration of the loop: the list after the line was handled
ParseLine(line, acc) ==
    LET parts == Split(line)
        q == PyInt(RemoveCommas(parts[5]))
        p == PyFloat(RemoveCommas(parts[6]))
    IN  IF Len(parts) # Len(headers) THEN acc
        ELSE IF ~q.ok \/ ~p.ok THEN acc
        ELSE Append(acc,
                 [TransactionID |-> Str(Strip(parts[1])),
                  Date |-> Str(Strip(parts[2])),
                  ProductID |-> Str(Strip(parts[3])),
                  ProductName |-> Str(Strip(RemoveCommas(parts[4]))),
                  Quantity |-> q.v,
                  UnitPrice |-> p.v,
                  CustomerID |-> Str(Strip(parts[7])),
                  Region |-> Str(Strip(parts[8]))])

RECURSIVE ParseFrom(_, _, _)
ParseFrom(lines, i, acc) ==
    IF i > Len(lines) THEN acc
    ELSE ParseFrom(lines, i + 1, ParseLine(lines[i], acc))

parse_transactions(lines) == ParseFrom(lines, 1, <<>>)

-----------------------------------------------------------------------------
(* main.py: validate_and_filter, the definition main() calls *)

required ==
    {"TransactionID", "ProductID", "CustomerID", "Quantity", "UnitPrice", "Region"}

\* `region and ...`, `min_amount is not None and ...`
RegionGiven(region) == Truthy(region)

AmountGiven(bound) == bound.t # "none"

\* The body of the for loop for one record, with its try/except Exception:
\* which of the four outcomes the record gets.  x.startswith on a value that
\* is no str raises AttributeError, x <= 0 on a value that is no number
\* raises TypeError; both are caught and count the record as invalid.
CheckTx(tx, region, lo, hi) ==
    IF ~(required \subseteq DOMAIN tx) THEN "invalid"
    ELSE IF ~IsStr(tx.TransactionID) THEN "invalid"
    ELSE IF ~StartsWith(tx.TransactionID.s, "T") THEN "invalid"
    ELSE IF ~IsStr(tx.ProductID) THEN "invalid"
    ELSE IF ~StartsWith(tx.ProductID.s, "P") THEN "invalid"
    ELSE IF ~IsStr(tx.CustomerID) THEN "invalid"
    ELSE IF ~StartsWith(tx.CustomerID.s, "C") THEN "invalid"
    ELSE IF ~IsNumber(tx.Quantity) THEN "invalid"
    ELSE IF LeZero(tx.Quantity) THEN "invalid"
    ELSE IF ~IsNumber(tx.UnitPrice) THEN "invalid"
    ELSE IF LeZero(tx.UnitPrice) THEN "invalid"
    ELSE LET amount == Mul(tx.Quantity, tx.UnitPrice)
         IN  IF RegionGiven(region) /\ tx.Region # region
             THEN "filtered_by_region"
             ELSE IF AmountGiven(lo) /\ FltLt(amount, lo)
             THEN "filtered_by_amount"
             ELSE IF AmountGiven(hi) /\ FltGt(amount, hi)
             THEN "filtered_by_amount"
             ELSE "accepted"

\* the locals the loop updates
VFStart ==
    [valid_transactions |-> <<>>, invalid_count |-> 0,
     filtered_by_region |-> 0, filtered_by_amount |-> 0]

VFStep(acc, tx, outcome) ==
    CASE outcome = "invalid" ->
             [acc EXCEPT !.invalid_count = @ + 1]
      [] outcome = "filtered_by_region" ->
             [acc EXCEPT !.filtered_by_region = @ + 1]
      [] outcome = "filtered_by_amount" ->
             [acc EXCEPT !.filtered_by_amount = @ + 1]
      [] OTHER ->
             [acc EXCEPT !.valid_transactions = Append(@, tx)]

RECURSIVE VFLoop(_, _, _, _, _, _)
VFLoop(txs, i, region, lo, hi, acc) ==
    IF i > Len(txs) THEN acc
    ELSE VFLoop(txs, i + 1, region, lo, hi,
                VFStep(acc, txs[i], CheckTx(txs[i], region, lo, hi)))

\* lines 278-279: sorted({tx.get("Region") ... if tx.get("Region")}) and
\* ', '.join(...), outside the try: TypeError when a truthy Region is no str
AvailableRegionsRaises(txs) ==
    \E i \in 1..Len(txs) :
        /\ "Region" \in DOMAIN txs[i]
        /\ Truthy(txs[i].Region)
        /\ ~IsStr(txs[i].Region)

VFResult(txs, acc, raised) ==
    [raised |-> raised,
     valid_transactions |-> acc.valid_transactions,
     invalid_count |-> acc.invalid_count,
     filter_summary |->
         [total_input |-> Len(txs),
          invalid |-> acc.invalid_count,
          filtered_by_region |-> acc.filtered_by_region,
          filtered_by_amount |-> acc.filtered_by_amount,
          final_count |-> Len(acc.valid_transactions)]]

validate_and_filter(txs, region, lo, hi) ==
    IF AvailableRegionsRaises(txs) THEN VFResult(txs, VFStart, TRUE)
    ELSE VFResult(txs, VFLoop(txs, 1, region, lo, hi, VFStart), FALSE)

-----------------------------------------------------------------------------
(* utils/file_handler.py: validate_and_filter, the second definition *)

\* The body of its for loop, with try/except KeyError: a missing key counts
\* the record as invalid, a TypeError or AttributeError is not caught
\* ("raise").  The checks run in the order of the code, so that the first
\* exception met is the one the code meets.
FHCheckTx(tx, region, lo, hi) ==
    IF "Quantity" \notin DOMAIN tx THEN "invalid"
    ELSE IF ~IsNumber(tx.Quantity) THEN "raise"
    ELSE IF LeZero(tx.Quantity) THEN "invalid"
    ELSE IF "UnitPrice" \notin DOMAIN tx THEN "invalid"
    ELSE IF ~IsNumber(tx.UnitPrice) THEN "raise"
    ELSE IF LeZero(tx.UnitPrice) THEN "invalid"
    ELSE IF "TransactionID" \notin DOMAIN tx THEN "invalid"
    ELSE IF ~IsStr(tx.TransactionID) THEN "raise"
    ELSE IF ~StartsWith(tx.TransactionID.s, "T") THEN "invalid"
    ELSE IF "ProductID" \notin DOMAIN tx THEN "invalid"
    ELSE IF ~IsStr(tx.ProductID) THEN "raise"
    ELSE IF ~StartsWith(tx.ProductID.s, "P") THEN "invalid"
    ELSE IF "CustomerID" \notin DOMAIN tx THEN "invalid"
    ELSE IF ~IsStr(tx.CustomerID) THEN "raise"
    ELSE IF ~StartsWith(tx.CustomerID.s, "C") THEN "invalid"
    ELSE LET amount == Mul(tx.Quantity, tx.UnitPrice)
         IN  IF RegionGiven(region) /\ "Region" \notin DOMAIN tx
             THEN "invalid"
             ELSE IF RegionGiven(region) /\ tx.Region # region
             THEN "filtered_by_region"
             ELSE IF AmountGiven(lo) /\ FltLt(amount, lo)
             THEN "filtered_by_amount"
             ELSE IF AmountGiven(hi) /\ FltGt(amount, hi)
             THEN "filtered_by_amount"
             ELSE "accepted"

\* [raised, acc]: the loop stops at the first exception it does not catch
RECURSIVE FHLoop(_, _, _, _, _, _)
FHLoop(txs, i, region, lo, hi, acc) ==
    IF i > Len(txs) THEN [raised |-> FALSE, acc |-> acc]
    ELSE LET outcome == FHCheckTx(txs[i], region, lo, hi)
         IN  IF outcome = "raise" THEN [raised |-> TRUE, acc |-> acc]
             ELSE FHLoop(txs, i + 1, region, lo, hi, VFStep(acc, txs[i], outcome))

\* line 101: sorted({tx["Region"] ... if tx.get("Region")}): TypeError when
\* the truthy regions hold both a str and a number
FHRegionsRaises(txs) ==
    LET rs == {txs[i].Region : i \in {j \in 1..Len(txs) :
                   "Region" \in DOMAIN txs[j] /\ Truthy(txs[j].Region)}}
    IN  (\E r \in rs : IsStr(r)) /\ (\E r \in rs : ~IsStr(r))

\* lines 105-109: tx["Quantity"] * tx["UnitPrice"] for the records whose two
\* values are truthy: TypeError for str * float
FHAmountsRaises(txs) ==
    \E i \in 1..Len(txs) :
        /\ {"Quantity", "UnitPrice"} \subseteq DOMAIN txs[i]
        /\ Truthy(txs[i].Quantity) /\ Truthy(txs[i].UnitPrice)
        /\ ~(IsNumber(txs[i].Quantity) /\ IsNumber(txs[i].UnitPrice))

fh_validate_and_filter(txs, region, lo, hi) ==
    IF FHRegionsRaises(txs) \/ FHAmountsRaises(txs)
    THEN VFResult(txs, VFStart, TRUE)
    ELSE LET r == FHLoop(txs, 1, region, lo, hi, VFStart)
         IN  VFResult(txs, r.acc, r.raised)

-----------------------------------------------------------------------------
(* Orderings: str comparison, sorted(), max() *)

\* the characters of the model, in code point order
Alphabet ==
    <<" ", "+", ",", "-", ".", "/", "0", "1", "2", "3", "4", "5", "6", "7", "8", "9",
      "A", "B", "C", "D", "E", "F", "N", "P", "S", "T", "X", "Y",
      "a", "e", "l", "n", "r", "s", "u", "x", "|">>

Ord(c) == CHOOSE i \in 1..Len(Alphabet) : Alphabet[i] = c

\* a < b on str
RECURSIVE StrLt(_, _)
StrLt(a, b) ==
    IF b = <<>> THEN FALSE
    ELSE IF a = <<>> THEN TRUE
    ELSE IF Head(a) = Head(b) THEN StrLt(Tail(a), Tail(b))
    ELSE Ord(Head(a)) < Ord(Head(b))

\* a < b on two keys of one kind: numbers (False with nan) or strs
KeyLt(a, b) == IF IsStr(a) THEN StrLt(a.s, b.s) ELSE FltLt(a, b)

Reverse(order) == [i \in 1..Len(order) |-> order[Len(order) + 1 - i]]

\* sorted() on fewer than 64 items: the run the list starts with is found
\* (strictly falling, when descending, or else not falling), then every later
\* item is placed by binary insertion. n is the length of the run so far.
RECURSIVE RunEnd(_, _, _, _)
RunEnd(order, keys, n, descending) ==
    IF n >= Len(order) THEN n
    ELSE IF KeyLt(keys[order[n + 1]], keys[order[n]]) = descending
         THEN RunEnd(order, keys, n + 1, descending)
         ELSE n

\* how many of the first r items stay before the pivot: the pivot goes left of
\* the probed item only when its key is less
RECURSIVE BinarySearch(_, _, _, _, _)
BinarySearch(order, keys, pivot, l, r) ==
    IF l >= r THEN l
    ELSE LET p == l + ((r - l) \div 2)
         IN  IF KeyLt(keys[pivot], keys[order[p + 1]])
             THEN BinarySearch(order, keys, pivot, l, p)
             ELSE BinarySearch(order, keys, pivot, p + 1, r)

\* the first start items are in order; the others are inserted one by one
RECURSIVE BinarySort(_, _, _)
BinarySort(order, keys, start) ==
    IF start >= Len(order) THEN order
    ELSE LET pivot == order[start + 1]
             l == BinarySearch(order, keys, pivot, 0, start)
         IN  BinarySort(SubSeq(order, 1, l) \o <<pivot>>
                            \o SubSeq(order, l + 1, start)
                            \o SubSeq(order, start + 2, Len(order)),
                        keys, start + 1)

\* the indices of keys in sorted order; reverse=True reverses the list before
\* and after the sort, which keeps equal keys in their first order
SortIdx(keys, desc) ==
    LET n == Len(keys)
        first == IF desc THEN Reverse([i \in 1..n |-> i]) ELSE [i \in 1..n |-> i]
        descending == n >= 2 /\ KeyLt(keys[first[2]], keys[first[1]])
        run == IF n < 2 THEN n ELSE RunEnd(first, keys, 2, descending)
        runs == IF descending
                THEN Reverse(SubSeq(first, 1, run)) \o SubSeq(first, run + 1, n)
                ELSE first
        sorted == BinarySort(runs, keys, run)
    IN  IF desc THEN Reverse(sorted) ELSE sorted

\* the items in the order of sorted(items, key=..., reverse=desc), given the
\* key of each item
SortedBy(items, keys, desc) ==
    LET order == SortIdx(keys, desc)
    IN  [i \in 1..Len(items) |-> items[order[i]]]

\* a max() that keeps the last of the items with the greatest key
RECURSIVE MaxIdxLast(_, _, _)
MaxIdxLast(keys, j, best) ==
    IF j > Len(keys) THEN best
    ELSE MaxIdxLast(keys, j + 1, IF FltLt(keys[j], keys[best]) THEN best ELSE j)

\* max(items, key=...): the first item no later item's key exceeds;
\* the caller checks that items is not empty
RECURSIVE MaxIdx(_, _, _)
MaxIdx(keys, j, best) ==
    IF j > Len(keys) THEN best
    ELSE MaxIdx(keys, j + 1, IF FltGt(keys[j], keys[best]) THEN j ELSE best)

-----------------------------------------------------------------------------
(* Grouping with a defaultdict: keys in the order of first insertion *)

RECURSIVE KeysFrom(_, _, _, _)
KeysFrom(txs, f, i, acc) ==
    IF i > Len(txs) THEN acc
    ELSE KeysFrom(txs, f, i + 1,
                  IF \E k \in 1..Len(acc) : acc[k] = txs[i][f] THEN acc
                  ELSE Append(acc, txs[i][f]))

GroupKeys(txs, f) == KeysFrom(txs, f, 1, <<>>)

Group(txs, f, k) == SelectSeq(txs, LAMBDA tx : tx[f] = k)

Amount(tx) == Mul(tx.Quantity, tx.UnitPrice)

\* total = 0.0; for tx in txs: total += amount
RECURSIVE SumAmountFrom(_, _, _)
SumAmountFrom(txs, i, acc) ==
    IF i > Len(txs) THEN acc
    ELSE SumAmountFrom(txs, i + 1, Add(acc, Amount(txs[i])))

SumAmount(txs) == SumAmountFrom(txs, 1, Flt(0))

RECURSIVE SumQtyFrom(_, _, _)
SumQtyFrom(txs, i, acc) ==
    IF i > Len(txs) THEN acc
    ELSE SumQtyFrom(txs, i + 1, acc + txs[i].Quantity.n)

SumQty(txs) == SumQtyFrom(txs, 1, 0)

\* the integer nearest to a / b for b > 0, a tie going to the even one
RoundHalfEven(a, b) ==
    LET q == a \div b
        r == a - q * b
    IN  IF 2 * r < b THEN q
        ELSE IF 2 * r > b THEN q + 1
        ELSE IF q % 2 = 0 THEN q ELSE q + 1

\* round(x / g * 100, 2) for floats x and g, g not zero
Percentage(x, g) ==
    IF x.t = "nan" \/ g.t = "nan" THEN NaN
    ELSE IF g.n > 0 THEN Flt(RoundHalfEven(10000 * x.n, g.n))
    ELSE Flt(RoundHalfEven(0 - 10000 * x.n, 0 - g.n))

\* round(x / c, 2) for a float x and a count c >= 1
Average(x, c) == IF x.t = "nan" THEN NaN ELSE Flt(RoundHalfEven(x.n, c))

\* a call's outcome: its return value, or the exception it raised
Returned(v) == [raised |-> "", value |-> v]

Raised(e) == [raised |-> e, value |-> <<>>]

-----------------------------------------------------------------------------
(* utils/data_processor.py *)

\* round(total, 2) of a float counted in hundredths is the float itself
calculate_total_revenue(txs) == Returned(SumAmount(txs))

\* region groups whose total_sales is assigned, not added to
RegionRowsOverwrite(txs) ==
    LET ks == GroupKeys(txs, "Region")
    IN  [i \in 1..Len(ks) |->
            LET g == Group(txs, "Region", ks[i])
            IN  [region |-> ks[i],
                 total_sales |-> Amount(g[Len(g)]),
                 transaction_count |-> Len(g)]]

RegionRows(txs) ==
    LET ks == GroupKeys(txs, "Region")
    IN  [i \in 1..Len(ks) |->
            [region |-> ks[i],
             total_sales |-> SumAmount(Group(txs, "Region", ks[i])),
             transaction_count |-> Len(Group(txs, "Region", ks[i]))]]

region_wise_sales(txs) ==
    LET rows == RegionRows(txs)
        grand_total == SumAmount(txs)
        full == [i \in 1..Len(rows) |->
                    [region |-> rows[i].region,
                     total_sales |-> rows[i].total_sales,
                     transaction_count |-> rows[i].transaction_count,
                     percentage |-> Percentage(rows[i].total_sales, grand_total)]]
    IN  IF Len(rows) > 0 /\ grand_total = Flt(0) THEN Raised("ZeroDivisionError")
        ELSE Returned(SortedBy(full,
                 [i \in 1..Len(full) |-> full[i].total_sales], TRUE))

ProductRows(txs) ==
    LET ks == GroupKeys(txs, "ProductName")
    IN  [i \in 1..Len(ks) |->
            [product |-> ks[i],
             quantity |-> SumQty(Group(txs, "ProductName", ks[i])),
             revenue |-> SumAmount(Group(txs, "ProductName", ks[i]))]]

\* s[:n]: a negative n counts from the end of s
FirstN(s, n) ==
    LET stop == IF n < 0 THEN (IF Len(s) + n < 0 THEN 0 ELSE Len(s) + n)
                ELSE IF n < Len(s) THEN n ELSE Len(s)
    IN  SubSeq(s, 1, stop)

\* a top_selling_products that takes the first n groups without sorting them
top_selling_products_unsorted(txs, n) == Returned(FirstN(ProductRows(txs), n))

top_selling_products(txs, n) ==
    LET rows == ProductRows(txs)
    IN  Returned(FirstN(SortedBy(rows,
            [i \in 1..Len(rows) |-> Int_(rows[i].quantity)], TRUE), n))

\* sorted(list(set_of_str))
RECURSIVE SortedStrs(_)
SortedStrs(S) ==
    IF S = {} THEN <<>>
    ELSE LET m == CHOOSE x \in S : \A y \in S : ~StrLt(y.s, x.s)
         IN  <<m>> \o SortedStrs(S \ {m})

customer_analysis(txs) ==
    LET ks == GroupKeys(txs, "CustomerID")
        rows == [i \in 1..Len(ks) |->
            LET g == Group(txs, "CustomerID", ks[i])
            IN  [customer |-> ks[i],
                 total_spent |-> SumAmount(g),
                 purchase_count |-> Len(g),
                 avg_order_value |-> Average(SumAmount(g), Len(g)),
                 products_bought |->
                     SortedStrs({g[j].ProductName : j \in 1..Len(g)})]]
    IN  Returned(SortedBy(rows,
            [i \in 1..Len(rows) |-> rows[i].total_spent], TRUE))

DailyRows(txs) ==
    LET ks == GroupKeys(txs, "Date")
    IN  [i \in 1..Len(ks) |->
            LET g == Group(txs, "Date", ks[i])
            IN  [date |-> ks[i],
                 revenue |-> SumAmount(g),
                 transaction_count |-> Len(g),
                 unique_customers |->
                     Cardinality({g[j].CustomerID : j \in 1..Len(g)})]]

daily_sales_trend(txs) ==
    LET rows == DailyRows(txs)
    IN  Returned(SortedBy(rows, [i \in 1..Len(rows) |-> rows[i].date], FALSE))

\* max() of an empty dict's items raises ValueError
find_peak_sales_day(txs) ==
    LET rows == DailyRows(txs)
        peak == rows[MaxIdx([i \in 1..Len(rows) |-> rows[i].revenue], 1, 1)]
    IN  IF Len(rows) = 0 THEN Raised("ValueError")
        ELSE Returned(<<peak.date, peak.revenue, peak.transaction_count>>)

\* a low_performing_products that keeps a product whose quantity is threshold
low_performing_products_inclusive(txs, threshold) ==
    LET rows == SelectSeq(ProductRows(txs), LAMBDA r : r.quantity <= threshold)
    IN  Returned(SortedBy(rows,
            [i \in 1..Len(rows) |-> Int_(rows[i].quantity)], FALSE))

low_performing_products(txs, threshold) ==
    LET rows == SelectSeq(ProductRows(txs), LAMBDA r : r.quantity < threshold)
    IN  Returned(SortedBy(rows,
            [i \in 1..Len(rows) |-> Int_(rows[i].quantity)], FALSE))

-----------------------------------------------------------------------------
(* utils/api_handler.py *)

\* The body of the try block on a failed request: requests.get or
\* raise_for_status raises a RequestException, which is caught
FetchFailedResult == <<>>

\* product_mapping: a dict from the ids that are not None to the entries;
\* a later product with the same id overwrites an earlier one
create_product_mapping(products) ==
    LET ids == {products[i].id.n :
                    i \in {j \in 1..Len(products) : products[j].id.t # "none"}}
        last(k) == CHOOSE i \in 1..Len(products) :
                       /\ products[i].id.t # "none" /\ products[i].id.n = k
                       /\ \A j \in (i + 1)..Len(products) :
                              products[j].id.t = "none" \/ products[j].id.n # k
    IN  [k \in ids |->
            [title |-> products[last(k)].title,
             category |-> products[last(k)].category,
             brand |-> products[last(k)].brand,
             rating |-> products[last(k)].rating]]

\* enriched_tx = tx.copy() and the four default values
EnrichDefaults(tx) ==
    [API_Category |-> None, API_Brand |-> None,
     API_Rating |-> None, API_Match |-> Bool(FALSE)] @@ tx

\* NumericId with int(product_id_str[1:]) in place of the digit filter
NumericIdAfterPrefix(tx) ==
    LET product_id_str == IF "ProductID" \in DOMAIN tx THEN tx.ProductID ELSE Str(<<>>)
    IN  IF ~IsStr(product_id_str) THEN [ok |-> FALSE, v |-> 0]
        ELSE IF product_id_str.s = <<>> THEN [ok |-> FALSE, v |-> 0]
        ELSE IF ~AllDigits(Tail(product_id_str.s)) THEN [ok |-> FALSE, v |-> 0]
        ELSE [ok |-> TRUE, v |-> DigitsValue(Tail(product_id_str.s))]

\* int("".join(filter(str.isdigit, product_id_str))): filter over a value
\* that is no str raises TypeError, int("") raises ValueError
NumericId(tx) ==
    LET product_id_str == IF "ProductID" \in DOMAIN tx THEN tx.ProductID ELSE Str(<<>>)
    IN  IF ~IsStr(product_id_str) THEN [ok |-> FALSE, v |-> 0]
        ELSE IF FilterDigits(product_id_str.s) = <<>> THEN [ok |-> FALSE, v |-> 0]
        ELSE [ok |-> TRUE, v |-> DigitsValue(FilterDigits(product_id_str.s))]

\* EnrichTx with enriched_tx = tx in place of tx.copy(): the element of the
\* argument list is the dict that gets the API fields
EnrichTxInPlace(tx, mapping) ==
    LET id == NumericId(tx)
        e == IF id.ok /\ id.v \in DOMAIN mapping
             THEN [API_Category |-> mapping[id.v].category,
                   API_Brand |-> mapping[id.v].brand,
                   API_Rating |-> mapping[id.v].rating,
                   API_Match |-> Bool(TRUE)] @@ tx
             ELSE EnrichDefaults(tx)
    IN  [tx |-> e, enriched_tx |-> e]

\* One iteration of the loop of enrich_sales_data: tx is the element of the
\* argument list after the iteration, enriched_tx the element appended
EnrichTx(tx, mapping) ==
    LET id == NumericId(tx)
    IN  [tx |-> tx,
         enriched_tx |->
             IF id.ok /\ id.v \in DOMAIN mapping
             THEN [API_Category |-> mapping[id.v].category,
                   API_Brand |-> mapping[id.v].brand,
                   API_Rating |-> mapping[id.v].rating,
                   API_Match |-> Bool(TRUE)] @@ tx
             ELSE EnrichDefaults(tx)]

\* EnrichFrom with a `continue` in the except clause: a transaction whose
\* numeric id cannot be extracted is not appended
RECURSIVE EnrichFromSkipping(_, _, _, _)
EnrichFromSkipping(txs, mapping, i, acc) ==
    IF i > Len(txs) THEN acc
    ELSE LET r == EnrichTx(txs[i], mapping)
         IN  EnrichFromSkipping(txs, mapping, i + 1,
                 [transactions |-> Append(acc.transactions, r.tx),
                  enriched |-> IF NumericId(txs[i]).ok
                               THEN Append(acc.enriched, r.enriched_tx)
                               ELSE acc.enriched])

RECURSIVE EnrichFrom(_, _, _, _)
EnrichFrom(txs, mapping, i, acc) ==
    IF i > Len(txs) THEN acc
    ELSE LET r == EnrichTx(txs[i], mapping)
         IN  EnrichFrom(txs, mapping, i + 1,
                 [transactions |-> Append(acc.transactions, r.tx),
                  enriched |-> Append(acc.enriched, r.enriched_tx)])

\* transactions: the argument list when the call returns;
\* enriched: the list returned
enrich_sales_data(txs, mapping) ==
    EnrichFrom(txs, mapping, 1, [transactions |-> <<>>, enriched |-> <<>>])

RECURSIVE NatToStr(_)
NatToStr(n) ==
    IF n < 10 THEN <<Digits[n + 1]>>
    ELSE NatToStr(n \div 10) \o <<Digits[(n % 10) + 1]>>

\* str(value); a float counted in hundredths prints its shortest decimal
PyStr(v) ==
    LET mag == IF v.n < 0 THEN 0 - v.n ELSE v.n
        sign == IF v.n < 0 THEN <<"-">> ELSE <<>>
    IN  CASE v.t = "str" -> v.s
          [] v.t = "int" -> sign \o NatToStr(mag)
          [] v.t = "float" ->
                 sign \o NatToStr(mag \div 100) \o <<".">> \o
                 (IF mag % 10 = 0 THEN <<Digits[((mag % 100) \div 10) + 1]>>
                  ELSE <<Digits[((mag % 100) \div 10) + 1], Digits[(mag % 10) + 1]>>)
          [] v.t = "nan" -> <<"n", "a", "n">>
          [] v.t = "bool" -> IF v.n = 1 THEN <<"T", "r", "u", "e">>
                             ELSE <<"F", "a", "l", "s", "e">>
          [] OTHER -> <<"N", "o", "n", "e">>

enriched_headers ==
    headers \o <<"API_Category", "API_Brand", "API_Rating", "API_Match">>

\* one row of the file: "" for a value that is absent or None
SaveRow(tx) ==
    Join([h \in 1..Len(enriched_headers) |->
             IF enriched_headers[h] \notin DOMAIN tx THEN <<>>
             ELSE IF tx[enriched_headers[h]].t = "none" THEN <<>>
             ELSE PyStr(tx[enriched_headers[h]])])

\* the lines of the file: the header line, then one row per transaction
save_enriched_data(enriched) ==
    <<Join([h \in 1..Len(enriched_headers) |-> <<enriched_headers[h]>>])>> \o
    [i \in 1..Len(enriched) |-> SaveRow(enriched[i])]

-----------------------------------------------------------------------------
(* main.py: generate_sales_report *)

\* default arguments: top_selling_products(n=5), [:5] in the report
DefaultN == 5

\* low_performing_products(threshold=10), d["qty"] < 10 in the report
DefaultThreshold == 10

\* a / b on a float a and a number b that is not zero, kept exact
Quot(a, b) == IF a.t = "nan" THEN NaN ELSE [t |-> "quot", s |-> <<>>, n |-> a.n, d |-> b]

\* sum(... for tx in transactions): the int 0 when there is nothing to add
ReportSum(txs) == IF Len(txs) = 0 THEN Int_(0) ELSE SumAmount(txs)

\* The values the report renders, or the exception raised before the file
\* is opened.  The rendering of the values as text is not modelled.
generate_sales_report(txs, enriched) ==
    LET total_records == Len(txs)
        total_revenue == ReportSum(txs)
        avg_order_value ==
            IF total_records # 0 THEN Quot(total_revenue, total_records) ELSE Int_(0)
        dates == SortedBy([i \in 1..Len(txs) |-> txs[i].Date],
                          [i \in 1..Len(txs) |-> txs[i].Date], FALSE)
        date_range == IF Len(dates) > 0 THEN <<dates[1], dates[Len(dates)]>>
                      ELSE <<Str(<<"N", "/", "A">>)>>
        regions == RegionRows(txs)
        region_all == [i \in 1..Len(regions) |->
            [region |-> regions[i].region,
             revenue |-> regions[i].total_sales,
             percentage |->
                 IF Truthy(total_revenue)
                 THEN (IF total_revenue.t = "nan" THEN NaN
                       ELSE Quot(Mul(Int_(100), regions[i].total_sales), total_revenue.n))
                 ELSE Int_(0),
             count |-> regions[i].transaction_count]]
        region_rows == SortedBy(region_all,
            [i \in 1..Len(region_all) |-> region_all[i].revenue], TRUE)
        product_data == ProductRows(txs)
        top_products == FirstN(SortedBy(product_data,
            [i \in 1..Len(product_data) |-> Int_(product_data[i].quantity)], TRUE),
            DefaultN)
        cks == GroupKeys(txs, "CustomerID")
        customer_data == [i \in 1..Len(cks) |->
            [customer |-> cks[i],
             spent |-> SumAmount(Group(txs, "CustomerID", cks[i])),
             count |-> Len(Group(txs, "CustomerID", cks[i]))]]
        top_customers == FirstN(SortedBy(customer_data,
            [i \in 1..Len(customer_data) |-> customer_data[i].spent], TRUE),
            DefaultN)
        daily_data == DailyRows(txs)
        daily_rows == SortedBy(daily_data,
            [i \in 1..Len(daily_data) |-> daily_data[i].date], FALSE)
        best_day == daily_rows[MaxIdx(
            [i \in 1..Len(daily_rows) |-> daily_rows[i].revenue], 1, 1)]
        low_products ==
            SelectSeq(product_data, LAMBDA r : r.quantity < DefaultThreshold)
        avg_tx_value_region == [i \in 1..Len(regions) |->
            [region |-> regions[i].region,
             value |-> Quot(regions[i].total_sales, regions[i].transaction_count)]]
        matched == SelectSeq(enriched,
            LAMBDA tx : "API_Match" \in DOMAIN tx /\ Truthy(tx.API_Match))
        enriched_count == Len(matched)
        enrichment_rate ==
            IF Len(enriched) > 0
            THEN Quot(Flt(10000 * enriched_count), Len(enriched)) ELSE Int_(0)
        unenriched_products ==
            SortedStrs({enriched[i].ProductName : i \in {j \in 1..Len(enriched) :
                ~("API_Match" \in DOMAIN enriched[j] /\ Truthy(enriched[j].API_Match))}})
    IN  IF Len(daily_rows) = 0 THEN Raised("ValueError")
        ELSE Returned(
            [total_records |-> total_records,
             total_revenue |-> total_revenue,
             avg_order_value |-> avg_order_value,
             date_range |-> date_range,
             region_rows |-> region_rows,
             top_products |-> top_products,
             top_customers |-> top_customers,
             daily_rows |-> daily_rows,
             best_day |-> <<best_day.date, best_day.revenue>>,
             low_products |-> low_products,
             avg_tx_value_region |-> avg_tx_value_region,
             enriched_count |-> enriched_count,
             enrichment_rate |-> enrichment_rate,
             unenriched_products |-> unenriched_products])

-----------------------------------------------------------------------------
(* Inputs of the model *)

Line(tid, date, pid, name, qty, price, cid, region) ==
    Join(<<tid, date, pid, name, qty, price, cid, region>>)

\* Lines as read_sales_data returns them: stripped and not empty
Lines ==
    { Line(<<"T", "1">>, <<"0", "1">>, <<"P", "1">>, <<"A">>,
           <<"2">>, <<"1">>, <<"C", "1">>, <<"N">>),
      Line(<<"T", "2">>, <<"0", "2">>, <<"P", "2">>, <<"B">>,
           <<"3">>, <<"2", ".", "5">>, <<"C", "2">>, <<"S">>),
      Line(<<"T", "3">>, <<"0", "1">>, <<"P", "X", "1", "Y", "2">>, <<"A">>,
           <<"2">>, <<"2">>, <<"C", "1">>, <<>>),
      Line(<<"T", "4">>, <<"0", "2">>, <<"P", "1">>, <<"B">>,
           <<"0">>, <<"1">>, <<"C", "1">>, <<"N">>),
      Line(<<"T", "5">>, <<"0", "1">>, <<"P", "1">>, <<"A">>,
           <<"2">>, <<"n", "a", "n">>, <<"C", "2">>, <<"S">>),
      Line(<<"X", "6">>, <<"0", "1">>, <<"P", "1">>, <<"A">>,
           <<"2">>, <<"1">>, <<"C", "1">>, <<"N">>),
      Line(<<"T", "7">>, <<"0", "1">>, <<"P", "1">>, <<"A">>,
           <<"x">>, <<"1">>, <<"C", "1">>, <<"N">>),
      Join(<<<<"T", "8">>, <<"0", "1">>, <<"P", "1">>, <<"A">>,
             <<"2">>, <<"1">>, <<"C", "1">>>>),
      Line(<<"T", "9">>, <<"0", "2">>, <<"X", "1">>, <<"B", ",", "B">>,
           <<" ", "1", ",", "0">>, <<"1", ",", "0">>, <<"C", "1">>, <<"N">>),
      Line(<<"T", "1">>, <<"0", "2">>, <<"P">>, <<"B">>,
           <<"2">>, <<"-", "1">>, <<"C", "2">>, <<"S">>),
      Line(<<"T", "2">>, <<"0", "1">>, <<"P", "0", "7">>, <<"A">>,
           <<"1">>, <<"1">>, <<"X", "1">>, <<"N">>) }

SeqsUpTo(S, n) == UNION {[1..k -> S] : k \in 0..n}

\* what the user types at the prompts of main()
RegionInputs == {<<>>, <<"N">>}

MinInputs == {<<>>, <<"2">>, <<"x">>}

MaxInputs == {<<>>, <<"4">>}

Product(id, category) ==
    [id |-> id, title |-> Str(<<"t">>), category |-> Str(category),
     brand |-> Str(<<"b">>), price |-> Flt(100), rating |-> Flt(450)]

\* product lists the catalog request can return
Catalogs ==
    { <<>>,
      <<Product(Int_(1), <<"A">>), Product(Int_(12), <<"B">>)>>,
      <<Product(Int_(7), <<"A">>), Product(None, <<"B">>),
        Product(Int_(7), <<"C">>)>> }

-----------------------------------------------------------------------------
(* main.py: main() *)

NotRun == [raised |-> "not run", value |-> <<>>]

NoSummary ==
    [total_input |-> 0, invalid |-> 0, filtered_by_region |-> 0,
     filtered_by_amount |-> 0, final_count |-> 0]

NoAnalysis == [fn |-> "", outcome |-> NotRun]

\* the seven calls of step 5, in the order main() makes them
AnalyticsOrder ==
    <<"calculate_total_revenue", "region_wise_sales", "top_selling_products",
      "customer_analysis", "daily_sales_trend", "find_peak_sales_day",
      "low_performing_products">>

AnalyticsCall(fn, txs) ==
    CASE fn = "calculate_total_revenue" -> calculate_total_revenue(txs)
      [] fn = "region_wise_sales" -> region_wise_sales(txs)
      [] fn = "top_selling_products" -> top_selling_products(txs, DefaultN)
      [] fn = "customer_analysis" -> customer_analysis(txs)
      [] fn = "daily_sales_trend" -> daily_sales_trend(txs)
      [] fn = "find_peak_sales_day" -> find_peak_sales_day(txs)
      [] OTHER -> low_performing_products(txs, DefaultThreshold)

Init ==
    /\ pc = "parse"
    /\ raw_lines \in SeqsUpTo(Lines, MaxLines)
    /\ transactions = <<>>
    /\ region_filter = None
    /\ min_amount = None
    /\ max_amount = None
    /\ valid_transactions = <<>>
    /\ invalid_count = 0
    /\ summary = NoSummary
    /\ analysis = NoAnalysis
    /\ fetch_failed = FALSE
    /\ api_products = <<>>
    /\ product_mapping = <<>>
    /\ enriched_transactions = <<>>
    /\ saved_file = <<>>
    /\ report = NotRun

\* step 2
Parse ==
    /\ pc = "parse"
    /\ transactions' = parse_transactions(raw_lines)
    /\ pc' = "options"
    /\ UNCHANGED <<raw_lines, region_filter, min_amount, max_amount,
                   valid_transactions, invalid_count, summary, analysis,
                   fetch_failed, api_products, product_mapping,
                   enriched_transactions, saved_file, report>>

\* step 3: min(amounts) raises ValueError when nothing was parsed; float()
\* of a typed bound may raise ValueError; an empty answer is None
Options ==
    /\ pc = "options"
    /\ \E apply_filter \in BOOLEAN, region_in \in RegionInputs,
          min_val \in MinInputs, max_val \in MaxInputs :
          LET lo == PyFloat(Strip(min_val))
              hi == PyFloat(Strip(max_val))
          IN  IF Len(transactions) = 0
              THEN /\ pc' = "aborted"
                   /\ UNCHANGED <<region_filter, min_amount, max_amount>>
              ELSE IF ~apply_filter
              THEN /\ pc' = "validate"
                   /\ UNCHANGED <<region_filter, min_amount, max_amount>>
              ELSE IF \/ (Strip(min_val) # <<>> /\ ~lo.ok)
                      \/ (Strip(max_val) # <<>> /\ ~hi.ok)
              THEN /\ pc' = "aborted"
                   /\ UNCHANGED <<region_filter, min_amount, max_amount>>
              ELSE /\ pc' = "validate"
                   /\ region_filter' =
                          IF Strip(region_in) = <<>> THEN None
                          ELSE Str(Strip(region_in))
                   /\ min_amount' = IF Strip(min_val) = <<>> THEN None ELSE lo.v
                   /\ max_amount' = IF Strip(max_val) = <<>> THEN None ELSE hi.v
    /\ UNCHANGED <<raw_lines, transactions, valid_transactions, invalid_count,
                   summary, analysis, fetch_failed, api_products,
                   product_mapping, enriched_transactions, saved_file, report>>

\* step 4
Validate ==
    /\ pc = "validate"
    /\ LET r == validate_and_filter(transactions, region_filter,
                                    min_amount, max_amount)
       IN  IF r.raised
           THEN /\ pc' = "aborted"
                /\ UNCHANGED <<valid_transactions, invalid_count, summary>>
           ELSE /\ pc' = "analyze"
                /\ valid_transactions' = r.valid_transactions
                /\ invalid_count' = r.invalid_count
                /\ summary' = r.filter_summary
    /\ UNCHANGED <<raw_lines, transactions, region_filter, min_amount,
                   max_amount, analysis, fetch_failed, api_products,
                   product_mapping, enriched_transactions, saved_file, report>>

\* step 5: the seven calls in order; the first exception ends the run in
\* the except clause of main()
Analyze ==
    /\ pc = "analyze"
    /\ LET bad == {i \in 1..Len(AnalyticsOrder) :
                      AnalyticsCall(AnalyticsOrder[i], valid_transactions).raised # ""}
           last == IF bad = {} THEN Len(AnalyticsOrder)
                   ELSE CHOOSE i \in bad : \A j \in bad : i <= j
       IN  /\ analysis' =
                  [fn |-> AnalyticsOrder[last],
                   outcome |-> AnalyticsCall(AnalyticsOrder[last], valid_transactions)]
           /\ pc' = IF bad = {} THEN "fetch" ELSE "aborted"
    /\ UNCHANGED <<raw_lines, transactions, region_filter, min_amount,
                   max_amount, valid_transactions, invalid_count, summary,
                   fetch_failed, api_products, product_mapping,
                   enriched_transactions, saved_file, report>>

\* step 6, the request succeeds
FetchOk ==
    /\ pc = "fetch"
    /\ api_products' \in Catalogs
    /\ pc' = "enrich"
    /\ UNCHANGED <<raw_lines, transactions, region_filter, min_amount,
                   max_amount, valid_transactions, invalid_count, summary,
                   analysis, fetch_failed, product_mapping,
                   enriched_transactions, saved_file, report>>

\* FetchFail without the except clause of fetch_all_products: the
\* RequestException reaches the except clause of main()
FetchFailPropagates ==
    /\ pc = "fetch"
    /\ fetch_failed' = TRUE
    /\ pc' = "aborted"
    /\ UNCHANGED <<raw_lines, transactions, region_filter, min_amount,
                   max_amount, valid_transactions, invalid_count, summary,
                   analysis, api_products, product_mapping,
                   enriched_transactions, saved_file, report>>

\* step 6, the request fails or times out
FetchFail ==
    /\ pc = "fetch"
    /\ fetch_failed' = TRUE
    /\ api_products' = FetchFailedResult
    /\ pc' = "enrich"
    /\ UNCHANGED <<raw_lines, transactions, region_filter, min_amount,
                   max_amount, valid_transactions, invalid_count, summary,
                   analysis, product_mapping, enriched_transactions,
                   saved_file, report>>

\* steps 7 and 8: create_product_mapping, then enrich_sales_data, which
\* saves the enriched list before it returns
Enrich ==
    /\ pc = "enrich"
    /\ LET m == create_product_mapping(api_products)
           r == enrich_sales_data(valid_transactions, m)
       IN  /\ product_mapping' = m
           /\ valid_transactions' = r.transactions
           /\ enriched_transactions' = r.enriched
           /\ saved_file' = save_enriched_data(r.enriched)
    /\ pc' = "report"
    /\ UNCHANGED <<raw_lines, transactions, region_filter, min_amount,
                   max_amount, invalid_count, summary, analysis, fetch_failed,
                   api_products, report>>

\* step 9
Report ==
    /\ pc = "report"
    /\ report' = generate_sales_report(valid_transactions, enriched_transactions)
    /\ pc' = IF report'.raised = "" THEN "done" ELSE "aborted"
    /\ UNCHANGED <<raw_lines, transactions, region_filter, min_amount,
                   max_amount, valid_transactions, invalid_count, summary,
                   analysis, fetch_failed, api_products, product_mapping,
                   enriched_transactions, saved_file>>

Next ==
    \/ Parse
    \/ Options
    \/ Validate
    \/ Analyze
    \/ FetchOk
    \/ FetchFail
    \/ Enrich
    \/ Report

Spec == Init /\ [][Next]_vars

-----------------------------------------------------------------------------
(* The functions called on their own *)

Tx(tid, date, pid, name, qty, price, cid, region) ==
    [TransactionID |-> Str(tid), Date |-> Str(date), ProductID |-> Str(pid),
     ProductName |-> Str(name), Quantity |-> Int_(qty), UnitPrice |-> Flt(price),
     CustomerID |-> Str(cid), Region |-> Str(region)]

\* transactions of the Transaction model
FnTxs ==
    { Tx(<<"T", "1">>, <<"0", "1">>, <<"P", "1">>, <<"A">>, 2, 100, <<"C", "1">>, <<"N">>),
      Tx(<<"T", "2">>, <<"0", "2">>, <<"P", "X", "1", "Y", "2">>, <<"B">>, 3, 250,
         <<"C", "2">>, <<"S">>),
      Tx(<<"T", "3">>, <<"0", "2">>, <<"P">>, <<"A">>, 9, 100, <<"C", "1">>, <<"S">>),
      Tx(<<"T", "4">>, <<"0", "1">>, <<"P", "0", "7">>, <<"C">>, 5, 150, <<"C", "2">>, <<"N">>),
      Tx(<<"T", "5">>, <<"0", "1">>, <<"P", "2", "1">>, <<"B">>, 10, 75, <<"C", "3">>, <<"E">>) }

InitFn ==
    /\ pc = "fn"
    /\ raw_lines = <<>>
    /\ transactions \in SeqsUpTo(FnTxs, MaxTxs)
    /\ region_filter = None
    /\ min_amount = None
    /\ max_amount = None
    /\ valid_transactions = transactions
    /\ invalid_count = 0
    /\ summary = NoSummary
    /\ analysis = NoAnalysis
    /\ fetch_failed = FALSE
    /\ api_products \in Catalogs
    /\ product_mapping = create_product_mapping(api_products)
    /\ enriched_transactions = <<>>
    /\ saved_file = <<>>
    /\ report = NotRun

\* one of the seven analytics functions is called on the list
FnAnalytics ==
    /\ pc = "fn"
    /\ \E i \in 1..Len(AnalyticsOrder) :
          analysis' = [fn |-> AnalyticsOrder[i],
                       outcome |-> AnalyticsCall(AnalyticsOrder[i], valid_transactions)]
    /\ UNCHANGED <<pc, raw_lines, transactions, region_filter, min_amount,
                   max_amount, valid_transactions, invalid_count, summary,
                   fetch_failed, api_products, product_mapping,
                   enriched_transactions, saved_file, report>>

\* enrich_sales_data is called on the list
FnEnrich ==
    /\ pc = "fn"
    /\ LET r == enrich_sales_data(valid_transactions, product_mapping)
       IN  /\ valid_transactions' = r.transactions
           /\ enriched_transactions' = r.enriched
           /\ saved_file' = save_enriched_data(r.enriched)
    /\ UNCHANGED <<pc, raw_lines, transactions, region_filter, min_amount,
                   max_amount, invalid_count, summary, analysis, fetch_failed,
                   api_products, product_mapping, report>>

\* generate_sales_report is called on the list and the enriched list
FnReport ==
    /\ pc = "fn"
    /\ report' = generate_sales_report(valid_transactions, enriched_transactions)
    /\ UNCHANGED <<pc, raw_lines, transactions, region_filter, min_amount,
                   max_amount, valid_transactions, invalid_count, summary,
                   analysis, fetch_failed, api_products, product_mapping,
                   enriched_transactions, saved_file>>

NextFn ==
    \/ FnAnalytics
    \/ FnEnrich
    \/ FnReport

SpecFn == InitFn /\ [][NextFn]_vars

-----------------------------------------------------------------------------
(* validate_and_filter called on arbitrary dicts *)

Without(tx, k) == [x \in DOMAIN tx \ {k} |-> tx[x]]

BaseTx == Tx(<<"T", "1">>, <<"0", "1">>, <<"P", "1">>, <<"A">>, 2, 100, <<"C", "1">>, <<"N">>)

HighTx == Tx(<<"T", "2">>, <<"0", "2">>, <<"P", "2">>, <<"B">>, 3, 250, <<"C", "2">>, <<"S">>)

\* dicts with missing keys, values of the wrong type, and values that fail
\* one check
DictTxs ==
    { BaseTx,
      HighTx,
      Without(HighTx, "Region"),
      Tx(<<"T", "3">>, <<"0", "1">>, <<"P", "3">>, <<"A">>, 2, 200, <<"C", "1">>, <<>>),
      Without(BaseTx, "Region"),
      Without(BaseTx, "Quantity"),
      Without(BaseTx, "CustomerID"),
      [BaseTx EXCEPT !.TransactionID = Int_(7)],
      [BaseTx EXCEPT !.Quantity = Str(<<"2">>)],
      [BaseTx EXCEPT !.UnitPrice = None],
      [BaseTx EXCEPT !.Region = Int_(5)],
      [BaseTx EXCEPT !.Quantity = Int_(0)],
      [BaseTx EXCEPT !.UnitPrice = Flt(0 - 100)],
      [BaseTx EXCEPT !.ProductID = Str(<<"X", "1">>)] }

RegionArgs == {None, Str(<<"N">>)}

MinArgs == {None, Flt(200)}

MaxArgs == {None, Flt(400)}

InitVF ==
    /\ pc = "vf"
    /\ raw_lines = <<>>
    /\ transactions \in SeqsUpTo(DictTxs, MaxTxs)
    /\ region_filter \in RegionArgs
    /\ min_amount \in MinArgs
    /\ max_amount \in MaxArgs
    /\ valid_transactions = <<>>
    /\ invalid_count = 0
    /\ summary = NoSummary
    /\ analysis = NoAnalysis
    /\ fetch_failed = FALSE
    /\ api_products = <<>>
    /\ product_mapping = <<>>
    /\ enriched_transactions = <<>>
    /\ saved_file = <<>>
    /\ report = NotRun

\* main.py's validate_and_filter is called
VFMain ==
    /\ pc = "vf"
    /\ LET r == validate_and_filter(transactions, region_filter,
                                    min_amount, max_amount)
       IN  /\ pc' = IF r.raised THEN "main_raised" ELSE "main_returned"
           /\ valid_transactions' = r.valid_transactions
           /\ invalid_count' = r.invalid_count
           /\ summary' = r.filter_summary
    /\ UNCHANGED <<raw_lines, transactions, region_filter, min_amount,
                   max_amount, analysis, fetch_failed, api_products,
                   product_mapping, enriched_transactions, saved_file, report>>

\* file_handler.py's validate_and_filter is called
VFFileHandler ==
    /\ pc = "vf"
    /\ LET r == fh_validate_and_filter(transactions, region_filter,
                                       min_amount, max_amount)
       IN  /\ pc' = IF r.raised THEN "fh_raised" ELSE "fh_returned"
           /\ valid_transactions' = r.valid_transactions
           /\ invalid_count' = r.invalid_count
           /\ summary' = r.filter_summary
    /\ UNCHANGED <<raw_lines, transactions, region_filter, min_amount,
                   max_amount, analysis, fetch_failed, api_products,
                   product_mapping, enriched_transactions, saved_file, report>>

NextVF ==
    \/ VFMain
    \/ VFFileHandler

SpecVF == InitVF /\ [][NextVF]_vars

-----------------------------------------------------------------------------
(* The analytics functions and the report called with their arguments *)

\* the transactions of FnTxs, one more whose UnitPrice is 0 and one more
\* whose Quantity is negative
AnTxs ==
    FnTxs \cup
    { Tx(<<"T", "6">>, <<"0", "3">>, <<"P", "3">>, <<"D">>, 5, 0, <<"C", "3">>, <<"E">>),
      Tx(<<"T", "7">>, <<"0", "3">>, <<"P", "4">>, <<"E">>, 0 - 2, 100, <<"C", "1">>, <<"S">>) }

\* n of top_selling_products: a count
NArgs == {0, 1, 2, 5}

\* threshold of low_performing_products
ThresholdArgs == {5, 10, 11}

InitAn ==
    /\ pc = "an"
    /\ raw_lines = <<>>
    /\ transactions \in SeqsUpTo(AnTxs, MaxTxs)
    /\ region_filter = None
    /\ min_amount = None
    /\ max_amount = None
    /\ valid_transactions = transactions
    /\ invalid_count = 0
    /\ summary = NoSummary
    /\ analysis = [fn |-> "", arg |-> None, outcome |-> NotRun]
    /\ fetch_failed = FALSE
    /\ api_products = <<>>
    /\ product_mapping = <<>>
    /\ enriched_transactions = <<>>
    /\ saved_file = <<>>
    /\ report = NotRun

\* top_selling_products(transactions, n)
AnTopSelling ==
    /\ pc = "an"
    /\ \E n \in NArgs :
          analysis' = [fn |-> "top_selling_products", arg |-> Int_(n),
                       outcome |-> top_selling_products(valid_transactions, n)]
    /\ UNCHANGED <<pc, raw_lines, transactions, region_filter, min_amount,
                   max_amount, valid_transactions, invalid_count, summary,
                   fetch_failed, api_products, product_mapping,
                   enriched_transactions, saved_file, report>>

\* low_performing_products(transactions, threshold)
AnLowPerforming ==
    /\ pc = "an"
    /\ \E t \in ThresholdArgs :
          analysis' = [fn |-> "low_performing_products", arg |-> Int_(t),
                       outcome |-> low_performing_products(valid_transactions, t)]
    /\ UNCHANGED <<pc, raw_lines, transactions, region_filter, min_amount,
                   max_amount, valid_transactions, invalid_count, summary,
                   fetch_failed, api_products, product_mapping,
                   enriched_transactions, saved_file, report>>

\* one of the functions that take the list only
AnOther ==
    /\ pc = "an"
    /\ \E fn \in {"calculate_total_revenue", "region_wise_sales",
                  "customer_analysis", "daily_sales_trend", "find_peak_sales_day"} :
          analysis' = [fn |-> fn, arg |-> None,
                       outcome |-> AnalyticsCall(fn, valid_transactions)]
    /\ UNCHANGED <<pc, raw_lines, transactions, region_filter, min_amount,
                   max_amount, valid_transactions, invalid_count, summary,
                   fetch_failed, api_products, product_mapping,
                   enriched_transactions, saved_file, report>>

\* generate_sales_report(transactions, [])
AnReport ==
    /\ pc = "an"
    /\ report' = generate_sales_report(valid_transactions, enriched_transactions)
    /\ UNCHANGED <<pc, raw_lines, transactions, region_filter, min_amount,
                   max_amount, valid_transactions, invalid_count, summary,
                   analysis, fetch_failed, api_products, product_mapping,
                   enriched_transactions, saved_file>>

NextAn ==
    \/ AnTopSelling
    \/ AnLowPerforming
    \/ AnOther
    \/ AnReport

SpecAn == InitAn /\ [][NextAn]_vars

-----------------------------------------------------------------------------
(* What the specification says of a record, stated on its own terms *)

\* a >= b and a <= b on floats (False when either is nan)
FltGe(a, b) == a.t # "nan" /\ b.t # "nan" /\ a.n >= b.n

FltLe(a, b) == a.t # "nan" /\ b.t # "nan" /\ a.n <= b.n

\* all required fields present, the three id prefixes, Quantity > 0 and
\* UnitPrice > 0
StructurallyValid(tx) ==
    /\ required \subseteq DOMAIN tx
    /\ IsStr(tx.TransactionID) /\ StartsWith(tx.TransactionID.s, "T")
    /\ IsStr(tx.ProductID) /\ StartsWith(tx.ProductID.s, "P")
    /\ IsStr(tx.CustomerID) /\ StartsWith(tx.CustomerID.s, "C")
    /\ IsNumber(tx.Quantity) /\ GtZero(tx.Quantity)
    /\ IsNumber(tx.UnitPrice) /\ GtZero(tx.UnitPrice)

RegionMatches(tx, region) == region.t = "none" \/ tx.Region = region

AmountWithin(tx, lo, hi) ==
    /\ lo.t = "none" \/ FltGe(Amount(tx), lo)
    /\ hi.t = "none" \/ FltLe(Amount(tx), hi)

SpecAccepts(tx, region, lo, hi) ==
    /\ StructurallyValid(tx)
    /\ RegionMatches(tx, region)
    /\ AmountWithin(tx, lo, hi)

CountOf(txs, P(_)) == Cardinality({i \in 1..Len(txs) : P(txs[i])})

\* main() has the accepted list in hand
Validated ==
    \/ pc \in {"analyze", "fetch", "enrich", "report", "done"}
    \/ pc = "aborted" /\ analysis.fn # ""

-----------------------------------------------------------------------------
(* C1 *)

\* C1: the accepted list that main() gets from validate_and_filter is
\* exactly the subsequence of the parsed transactions that are structurally
\* valid (all required fields, T/P/C prefixes, Quantity > 0, UnitPrice > 0),
\* match the region filter when one is given and have their Amount within
\* the inclusive bounds that are given.
C1_AcceptedExactly ==
    Validated =>
        valid_transactions =
            SelectSeq(transactions,
                LAMBDA tx : SpecAccepts(tx, region_filter, min_amount, max_amount))

-----------------------------------------------------------------------------
(* C2 *)

NotStructurallyValid(tx) == ~StructurallyValid(tx)

\* C2: main.py's validate_and_filter never raises, whatever the records
\* hold: it returns, every record that fails a check has added exactly 1 to
\* the rejected count, and every record of the input was processed.
C2_NeverRaises ==
    pc \in {"main_raised", "main_returned"} =>
        /\ pc = "main_returned"
        /\ invalid_count = CountOf(transactions, NotStructurallyValid)
        /\ summary.total_input =
               invalid_count + summary.filtered_by_region
               + summary.filtered_by_amount + Len(valid_transactions)

-----------------------------------------------------------------------------
(* C3 *)

RegionFilteredOut(tx) ==
    StructurallyValid(tx) /\ ~RegionMatches(tx, region_filter)

AmountFilteredOut(tx) ==
    /\ StructurallyValid(tx)
    /\ RegionMatches(tx, region_filter)
    /\ ~AmountWithin(tx, min_amount, max_amount)

SummaryAddsUp ==
    /\ summary.final_count = Len(valid_transactions)
    /\ summary.invalid = invalid_count
    /\ summary.total_input = Len(transactions)
    /\ summary.total_input =
           summary.invalid + summary.filtered_by_region
           + summary.filtered_by_amount + summary.final_count

FilterCountsExact ==
    /\ summary.filtered_by_region = CountOf(transactions, RegionFilteredOut)
    /\ summary.filtered_by_amount = CountOf(transactions, AmountFilteredOut)

\* C3: when either validate_and_filter returns, the summary adds up
\* (final_count is the length of the accepted list, invalid the rejected
\* count, total_input the sum of the four outcomes), only structurally valid
\* records are counted under filtered_by_region or filtered_by_amount, and
\* a valid record failing both filters is counted once, under the region.
C3_EveryRecordCountedOnce ==
    pc \in {"main_returned", "fh_returned"} =>
        SummaryAddsUp /\ FilterCountsExact

\* the same of main.py's definition alone
C3_MainCountsOnce ==
    pc = "main_returned" => SummaryAddsUp /\ FilterCountsExact

\* the sums alone, of both definitions
C3_SummaryAddsUp ==
    pc \in {"main_returned", "fh_returned"} => SummaryAddsUp

-----------------------------------------------------------------------------
(* C4 *)

\* C4: generate_sales_report on an empty transaction set and an empty
\* enriched set completes, with total revenue 0, average order value 0,
\* date range "N/A" and enrichment rate 0.
C4_EmptyReportCompletes ==
    (report # NotRun /\ Len(valid_transactions) = 0
         /\ Len(enriched_transactions) = 0) =>
        /\ report.raised = ""
        /\ report.value.total_revenue.n = 0
        /\ report.value.avg_order_value.n = 0
        /\ report.value.date_range = <<Str(<<"N", "/", "A">>)>>
        /\ report.value.enrichment_rate.n = 0

-----------------------------------------------------------------------------
(* C5 *)

\* C5: when zero transactions are accepted, no analytics call of main()
\* raises and the run is not ended by the analysis step: it goes on to the
\* later steps.
C5_EmptySetAnalysed ==
    (Validated /\ Len(valid_transactions) = 0) =>
        /\ analysis.fn # "" => analysis.outcome.raised = ""
        /\ pc # "aborted"

\* the seven functions on the empty list, one by one
C5_EmptySetDefined ==
    (pc = "fn" /\ Len(valid_transactions) = 0 /\ analysis.fn # "") =>
        analysis.outcome.raised = ""

-----------------------------------------------------------------------------
(* C6 *)

EnrichCalled == pc = "fn" /\ saved_file # <<>>

SameEightFields(a, b) ==
    \A h \in 1..Len(headers) :
        /\ headers[h] \in DOMAIN a
        /\ headers[h] \in DOMAIN b
        /\ a[headers[h]] = b[headers[h]]

\* C6: enrich_sales_data returns a list as long as its input, whose i-th
\* element carries the eight transaction fields of the i-th input
\* transaction, whatever the catalog mapping holds and whether or not a
\* numeric id can be extracted.
C6_EnrichOneToOne ==
    EnrichCalled =>
        /\ Len(enriched_transactions) = Len(transactions)
        /\ \A i \in 1..Len(transactions) :
               i <= Len(enriched_transactions)
               /\ SameEightFields(enriched_transactions[i], transactions[i])

\* two transactions were enriched, one of them with no digit in its id
C6_Witness ==
    /\ EnrichCalled
    /\ Len(enriched_transactions) = 2
    /\ \E i \in 1..2 : transactions[i].ProductID = Str(<<"P">>)
    /\ DOMAIN product_mapping # {}

-----------------------------------------------------------------------------
(* C7 *)

\* the digit characters of a str, in order, read as one decimal number
RECURSIVE ReadDigits(_, _)
ReadDigits(s, acc) ==
    IF s = <<>> THEN acc
    ELSE IF Head(s) \in {"0", "1", "2", "3", "4", "5", "6", "7", "8", "9"}
    THEN ReadDigits(Tail(s), 10 * acc + DigitVal(Head(s)))
    ELSE ReadDigits(Tail(s), acc)

HasDigit(s) ==
    \E i \in 1..Len(s) : s[i] \in {"0", "1", "2", "3", "4", "5", "6", "7", "8", "9"}

CatalogHit(tx) ==
    HasDigit(tx.ProductID.s) /\ ReadDigits(tx.ProductID.s, 0) \in DOMAIN product_mapping

\* C7: API_Match is True exactly when the ProductID has a digit and the
\* number its digits spell is a key of the catalog mapping; then the three
\* API fields are those of that entry, and otherwise all three are None.
C7_MatchIffCatalogKey ==
    EnrichCalled =>
        \A i \in 1..Len(enriched_transactions) :
            LET e == enriched_transactions[i]
                tx == transactions[i]
            IN  /\ e.API_Match = Bool(CatalogHit(tx))
                /\ CatalogHit(tx) =>
                       LET entry == product_mapping[ReadDigits(tx.ProductID.s, 0)]
                       IN  /\ e.API_Category = entry.category
                           /\ e.API_Brand = entry.brand
                           /\ e.API_Rating = entry.rating
                /\ ~CatalogHit(tx) =>
                       /\ e.API_Category = None
                       /\ e.API_Brand = None
                       /\ e.API_Rating = None

\* PX1Y2 was matched with entry 12, next to a transaction with no match
C7_Witness ==
    /\ EnrichCalled
    /\ \E i \in 1..Len(enriched_transactions) :
           /\ transactions[i].ProductID = Str(<<"P", "X", "1", "Y", "2">>)
           /\ enriched_transactions[i].API_Match = Bool(TRUE)
           /\ enriched_transactions[i].API_Category = Str(<<"B">>)
    /\ \E i \in 1..Len(enriched_transactions) :
           enriched_transactions[i].API_Match = Bool(FALSE)

-----------------------------------------------------------------------------
(* C8 *)

AllUnmatched ==
    /\ DOMAIN product_mapping = {}
    /\ Len(enriched_transactions) = Len(valid_transactions)
    /\ \A i \in 1..Len(enriched_transactions) :
           enriched_transactions[i].API_Match = Bool(FALSE)
    /\ Len(saved_file) = Len(enriched_transactions) + 1

FetchFailureAbsorbed ==
    fetch_failed =>
        /\ api_products = <<>>
        /\ pc \in {"enrich", "report", "done"}
        /\ pc \in {"report", "done"} => AllUnmatched
        /\ pc = "done" => report.raised = ""

FetchFailureGoesOn ==
    /\ (pc = "fetch" /\ fetch_failed') => pc' = "enrich"
    /\ (pc = "enrich" /\ fetch_failed) => (pc' = "report" /\ saved_file' # <<>>)
    /\ (pc = "report" /\ fetch_failed) => pc' = "done"

\* C8: once the catalog request has failed, the product list is empty, the
\* run is never in the except clause of main(), every step taken leads to
\* the next stage (enrich and save, then report, then done), and every
\* enriched transaction has API_Match False.
C8_FetchFailureDegrades ==
    []FetchFailureAbsorbed /\ [][FetchFailureGoesOn]_vars

\* a run whose catalog request failed has written its report
C8_Witness ==
    /\ fetch_failed
    /\ pc = "done"
    /\ Len(enriched_transactions) = 2
    /\ report.raised = ""

-----------------------------------------------------------------------------
(* C9 *)

\* C9: whatever calls were made and in whatever order, the list passed to
\* the analytics functions and to enrich_sales_data is the list as given;
\* the outcome of an analytics call is its outcome on the list as given,
\* and the enriched list is the enrichment of the list as given.
C9_CallsAreReadOnly ==
    pc = "fn" =>
        /\ valid_transactions = transactions
        /\ analysis.fn # "" =>
               analysis.outcome = AnalyticsCall(analysis.fn, transactions)
        /\ saved_file # <<>> =>
               enriched_transactions =
                   enrich_sales_data(transactions, product_mapping).enriched

\* analytics ran after enrichment, on a list of two transactions
C9_Witness ==
    /\ EnrichCalled
    /\ analysis.fn = "region_wise_sales"
    /\ analysis.outcome.raised = ""
    /\ Len(transactions) = 2
    /\ \E i \in 1..2 : enriched_transactions[i].API_Match = Bool(TRUE)

-----------------------------------------------------------------------------
(* C10 *)

\* C10: every transaction main() has accepted has the T/P/C id prefixes,
\* neither Quantity <= 0 nor UnitPrice <= 0, and a Region that is a
\* non-empty str.
C10_AcceptedRegionNonEmpty ==
    Validated =>
        \A i \in 1..Len(valid_transactions) :
            LET tx == valid_transactions[i]
            IN  /\ required \subseteq DOMAIN tx
                /\ IsStr(tx.TransactionID) /\ StartsWith(tx.TransactionID.s, "T")
                /\ IsStr(tx.ProductID) /\ StartsWith(tx.ProductID.s, "P")
                /\ IsStr(tx.CustomerID) /\ StartsWith(tx.CustomerID.s, "C")
                /\ IsNumber(tx.Quantity) /\ ~LeZero(tx.Quantity)
                /\ IsNumber(tx.UnitPrice) /\ ~LeZero(tx.UnitPrice)
                /\ IsStr(tx.Region) /\ tx.Region.s # <<>>

-----------------------------------------------------------------------------
(* Claims on the analytics functions *)

\* the named function was the last one called on the list
AnCalled(fn) == pc = "an" /\ analysis.fn = fn

\* every transaction has Quantity > 0 and UnitPrice > 0
AllAmountsValid(txs) ==
    \A i \in 1..Len(txs) : GtZero(txs[i].Quantity) /\ GtZero(txs[i].UnitPrice)

RECURSIVE SumTotalSales(_)
SumTotalSales(rows) ==
    IF rows = <<>> THEN 0 ELSE Head(rows).total_sales.n + SumTotalSales(Tail(rows))

RECURSIVE SumTransactionCount(_)
SumTransactionCount(rows) ==
    IF rows = <<>> THEN 0
    ELSE Head(rows).transaction_count + SumTransactionCount(Tail(rows))

\* C11: for a valid transaction set, the total_sales of the regions that
\* region_wise_sales returns add up to calculate_total_revenue of the set,
\* the transaction_count of the regions add up to the number of
\* transactions, and each transaction's Region is the key of exactly one group
C11_RegionsPartition ==
    (AnCalled("region_wise_sales") /\ AllAmountsValid(valid_transactions)) =>
        /\ analysis.outcome.raised = ""
        /\ LET rows == analysis.outcome.value
           IN  /\ Flt(SumTotalSales(rows)) =
                      calculate_total_revenue(valid_transactions).value
               /\ SumTransactionCount(rows) = Len(valid_transactions)
               /\ \A i \in 1..Len(valid_transactions) :
                      Cardinality({r \in 1..Len(rows) :
                          rows[r].region = valid_transactions[i].Region}) = 1

\* region_wise_sales has returned for two valid transactions of one region
C11_Witness ==
    /\ AnCalled("region_wise_sales")
    /\ AllAmountsValid(valid_transactions)
    /\ Len(valid_transactions) = 2
    /\ valid_transactions[1].Region = valid_transactions[2].Region
    /\ analysis.outcome.raised = ""
    /\ Len(analysis.outcome.value) = 1

\* the sum of the Amounts of the list, in hundredths
RECURSIVE GrandTotal(_)
GrandTotal(txs) ==
    IF txs = <<>> THEN 0
    ELSE Head(txs).Quantity.n * Head(txs).UnitPrice.n + GrandTotal(Tail(txs))

\* C12: region_wise_sales returns for every input, with each region's
\* percentage total_sales / grand_total * 100 rounded to 2 decimals, and 0
\* for every region when grand_total is 0; it never divides by zero
C12_PercentageDefined ==
    AnCalled("region_wise_sales") =>
        /\ analysis.outcome.raised = ""
        /\ LET rows == analysis.outcome.value
               g == GrandTotal(valid_transactions)
           IN  \A r \in 1..Len(rows) :
                   rows[r].percentage =
                       IF g = 0 THEN Flt(0)
                       ELSE Percentage(rows[r].total_sales, Flt(g))

\* C12, the part that holds: when grand_total is not 0 the call returns and
\* each percentage is the rounded share
C12_PercentageWhenNonZero ==
    (AnCalled("region_wise_sales") /\ GrandTotal(valid_transactions) # 0) =>
        /\ analysis.outcome.raised = ""
        /\ LET rows == analysis.outcome.value
           IN  \A r \in 1..Len(rows) :
                   rows[r].percentage =
                       Percentage(rows[r].total_sales,
                                  Flt(GrandTotal(valid_transactions)))

\* the values of field f in the list
KeysOf(txs, f) == {txs[i][f] : i \in 1..Len(txs)}

\* the summed Quantity of the transactions whose field f is k
RECURSIVE QtyWhere(_, _, _)
QtyWhere(txs, f, k) ==
    IF txs = <<>> THEN 0
    ELSE (IF Head(txs)[f] = k THEN Head(txs).Quantity.n ELSE 0)
             + QtyWhere(Tail(txs), f, k)

\* the summed Amount, in hundredths, of the transactions whose field f is k
RECURSIVE AmountWhere(_, _, _)
AmountWhere(txs, f, k) ==
    IF txs = <<>> THEN 0
    ELSE (IF Head(txs)[f] = k
          THEN Head(txs).Quantity.n * Head(txs).UnitPrice.n ELSE 0)
             + AmountWhere(Tail(txs), f, k)

CountWhere(txs, f, k) == Cardinality({i \in 1..Len(txs) : txs[i][f] = k})

\* the position at which k is first met in field f
FirstAt(txs, f, k) ==
    CHOOSE i \in 1..Len(txs) :
        txs[i][f] = k /\ \A j \in 1..(i - 1) : txs[j][f] # k

\* C13: top_selling_products(txs, n), n a count, returns at most n entries,
\* one per distinct ProductName and as many as there are up to n, each with
\* the product's summed Quantity and summed Amount, in descending order of
\* summed quantity with ties in first-encountered order; no product left out
\* has a greater summed quantity than a returned one
C13_TopSelling ==
    AnCalled("top_selling_products") =>
        /\ analysis.outcome.raised = ""
        /\ LET out == analysis.outcome.value
               n == analysis.arg.n
               txs == valid_transactions
               names == KeysOf(txs, "ProductName")
               returned == {out[i].product : i \in 1..Len(out)}
           IN  /\ Len(out) <= n
               /\ Len(out) = IF n < Cardinality(names) THEN n ELSE Cardinality(names)
               /\ \A i \in 1..Len(out) :
                      /\ out[i].product \in names
                      /\ out[i].quantity = QtyWhere(txs, "ProductName", out[i].product)
                      /\ out[i].revenue =
                             Flt(AmountWhere(txs, "ProductName", out[i].product))
               /\ \A i, j \in 1..Len(out) :
                      i < j =>
                          /\ out[i].product # out[j].product
                          /\ \/ out[i].quantity > out[j].quantity
                             \/ /\ out[i].quantity = out[j].quantity
                                /\ FirstAt(txs, "ProductName", out[i].product)
                                       < FirstAt(txs, "ProductName", out[j].product)
               /\ \A p \in names \ returned : \A i \in 1..Len(out) :
                      out[i].quantity >= QtyWhere(txs, "ProductName", p)

\* top_selling_products has returned one of two products, the greater one
\* met second in the list
C13_Witness ==
    /\ AnCalled("top_selling_products")
    /\ analysis.arg = Int_(1)
    /\ Len(valid_transactions) = 2
    /\ valid_transactions[1].Quantity.n < valid_transactions[2].Quantity.n
    /\ valid_transactions[1].ProductName # valid_transactions[2].ProductName
    /\ analysis.outcome.raised = ""
    /\ Len(analysis.outcome.value) = 1
    /\ analysis.outcome.value[1].product = valid_transactions[2].ProductName

\* top_selling_products has returned two products of equal summed quantity
C13_TieWitness ==
    /\ AnCalled("top_selling_products")
    /\ analysis.outcome.raised = ""
    /\ Len(analysis.outcome.value) = 2
    /\ analysis.outcome.value[1].quantity = analysis.outcome.value[2].quantity

\* C14: low_performing_products(txs, t) holds exactly the products whose
\* summed quantity is below t, each once with its summed quantity, in
\* ascending order of summed quantity
C14_LowPerforming ==
    AnCalled("low_performing_products") =>
        /\ analysis.outcome.raised = ""
        /\ LET out == analysis.outcome.value
               t == analysis.arg.n
               txs == valid_transactions
               low == {p \in KeysOf(txs, "ProductName") :
                          QtyWhere(txs, "ProductName", p) < t}
           IN  /\ {out[i].product : i \in 1..Len(out)} = low
               /\ Len(out) = Cardinality(low)
               /\ \A i \in 1..Len(out) :
                      out[i].quantity = QtyWhere(txs, "ProductName", out[i].product)
               /\ \A i, j \in 1..Len(out) :
                      i < j => out[i].quantity <= out[j].quantity

\* low_performing_products has left out a product whose two transactions are
\* each below the threshold and whose summed quantity equals it
C14_Witness ==
    /\ AnCalled("low_performing_products")
    /\ Len(valid_transactions) = 2
    /\ valid_transactions[1].ProductName = valid_transactions[2].ProductName
    /\ valid_transactions[1].Quantity.n < analysis.arg.n
    /\ valid_transactions[2].Quantity.n < analysis.arg.n
    /\ valid_transactions[1].Quantity.n + valid_transactions[2].Quantity.n
           = analysis.arg.n
    /\ analysis.outcome = Returned(<<>>)

\* C15: on a list that is not empty find_peak_sales_day returns a date of the
\* list with that date's summed revenue and transaction count; no date has a
\* greater summed revenue, and of the dates with that revenue it is the one
\* met first in the list
C15_PeakDay ==
    (AnCalled("find_peak_sales_day") /\ Len(valid_transactions) > 0) =>
        /\ analysis.outcome.raised = ""
        /\ LET v == analysis.outcome.value
               txs == valid_transactions
               dates == KeysOf(txs, "Date")
           IN  /\ v[1] \in dates
               /\ v[2] = Flt(AmountWhere(txs, "Date", v[1]))
               /\ v[3] = CountWhere(txs, "Date", v[1])
               /\ \A d \in dates :
                      /\ AmountWhere(txs, "Date", d) <= v[2].n
                      /\ AmountWhere(txs, "Date", d) = v[2].n =>
                             FirstAt(txs, "Date", v[1]) <= FirstAt(txs, "Date", d)

\* find_peak_sales_day has returned the first of two dates that tie, the
\* later date of the two
C15_Witness ==
    /\ AnCalled("find_peak_sales_day")
    /\ Len(valid_transactions) = 2
    /\ StrLt(valid_transactions[2].Date.s, valid_transactions[1].Date.s)
    /\ Amount(valid_transactions[1]) = Amount(valid_transactions[2])
    /\ analysis.outcome.raised = ""
    /\ analysis.outcome.value[1] = valid_transactions[1].Date

-----------------------------------------------------------------------------
(* Claims on the report against the analytics functions *)

\* generate_sales_report has returned on the list
ReportWritten == pc = "an" /\ report.raised = ""

ProductsOf(rows) == [i \in 1..Len(rows) |-> rows[i].product]

\* the report's Best Selling Day is the date find_peak_sales_day returned
BestDayAgrees ==
    (ReportWritten /\ AnCalled("find_peak_sales_day")) =>
        /\ analysis.outcome.raised = ""
        /\ report.value.best_day[1] = analysis.outcome.value[1]

\* the report's low-performing products are those low_performing_products
\* returned for the threshold 10, in the same order
LowProductsAgree ==
    (/\ ReportWritten
     /\ AnCalled("low_performing_products")
     /\ analysis.arg = Int_(DefaultThreshold)) =>
        /\ analysis.outcome.raised = ""
        /\ ProductsOf(report.value.low_products) =
               ProductsOf(analysis.outcome.value)

\* C16: on a list that is not empty the report names the date that
\* find_peak_sales_day returns as the Best Selling Day, and lists the
\* products that low_performing_products(txs, 10) returns, in its order
C16_ReportAgrees == BestDayAgrees /\ LowProductsAgree

\* C16, the first half alone
C16_BestDayAgrees == [](BestDayAgrees)

\* C16, the second half alone
C16_LowProductsAgree == [](LowProductsAgree)

\* C16, the part that holds: the two agree on which products are low
C16_SameLowProducts ==
    (/\ ReportWritten
     /\ AnCalled("low_performing_products")
     /\ analysis.arg = Int_(DefaultThreshold)) =>
        {report.value.low_products[i].product :
             i \in 1..Len(report.value.low_products)} =
        {analysis.outcome.value[i].product :
             i \in 1..Len(analysis.outcome.value)}

=============================================================================
